---- MODULE Spec2Model ----
(***************************************************************************)
(* The authenticated registry proxy engine of ghproxy (package proxy):     *)
(* GhcrWithImageRouting -> GhcrToTarget -> GhcrRequest, with ChallengeReq  *)
(* and the shared token cache.                                             *)
(*                                                                         *)
(* A request is a record; every handler segment between two upstream       *)
(* round trips is one operator on that record and one action.  The         *)
(* upstream registry, the token endpoint and the redirect target are the   *)
(* environment: each action that receives a response draws it from a       *)
(* small set.                                                              *)
(***************************************************************************)
EXTENDS Integers, Sequences, FiniteSets, TLC

VARIABLES cache, req, call

vars == <<cache, req, call>>

(***************************************************************************)
(* Bounds and program constants                                            *)
(***************************************************************************)
NumReqs == 2                 \* request slots (concurrently handled requests)
NumTokens == 2               \* distinct tokens the token endpoint may issue

MB == 1048576                \* 1024 * 1024, part_000:307

Reqs == 1..NumReqs
SeqReqs == {1}               \* the slot used when requests run one at a time

dockerhubTarget == "registry-1.docker.io"
ghcrTarget == "ghcr.io"

NoImage == "<nil>"           \* image == nil
NoToken == ""                \* ChallengeReq's zero return value / cache miss

TokenNames == <<"tokA", "tokB", "tokC", "tokD">>
Tokens == {TokenNames[i] : i \in 1..NumTokens}

(***************************************************************************)
(* Strings                                                                 *)
(***************************************************************************)
RECURSIVE Join(_, _)
Join(seq, sep) ==
    IF seq = <<>> THEN ""
    ELSE IF Len(seq) = 1 THEN seq[1]
    ELSE seq[1] \o sep \o Join(Tail(seq), sep)

\* A URL path is the sequence of its segments, each written after a "/".
PathStr(p) == IF p = <<>> THEN "" ELSE "/" \o Join(p, "/")

\* A host name is the sequence of its dot-separated labels.
HostStr(labels) == Join(labels, ".")

URLString(url) ==
    url.scheme \o "://" \o url.host \o PathStr(url.path)
        \o (IF url.query = "" THEN "" ELSE "?" \o url.query)

NoURL == [scheme |-> "", host |-> "", path |-> <<>>, query |-> ""]

\* strconv.Atoi on a sequence of characters: optional sign, then digits only.
DigitVal(ch) ==
    CASE ch = "0" -> 0 [] ch = "1" -> 1 [] ch = "2" -> 2 [] ch = "3" -> 3
      [] ch = "4" -> 4 [] ch = "5" -> 5 [] ch = "6" -> 6 [] ch = "7" -> 7
      [] ch = "8" -> 8 [] ch = "9" -> 9 [] OTHER -> -1

RECURSIVE DigitsVal(_, _)
DigitsVal(s, acc) ==
    IF s = <<>> THEN acc
    ELSE IF DigitVal(s[1]) < 0 THEN -1
    ELSE DigitsVal(Tail(s), acc * 10 + DigitVal(s[1]))

Atoi(s) ==
    LET signed == s # <<>> /\ s[1] \in {"+", "-"}
        digits == IF signed THEN Tail(s) ELSE s
        v      == IF digits = <<>> THEN -1 ELSE DigitsVal(digits, 0)
    IN  IF v < 0 THEN [ok |-> FALSE, val |-> 0]
        ELSE [ok |-> TRUE, val |-> IF signed /\ s[1] = "-" THEN 0 - v ELSE v]

(***************************************************************************)
(* net/url as the engine uses it                                           *)
(***************************************************************************)
\* url.resolvePath's removal of "." and ".." segments.
RECURSIVE RemoveDots(_, _)
RemoveDots(segs, acc) ==
    IF segs = <<>> THEN acc
    ELSE LET e    == Head(segs)
             last == Len(segs) = 1
         IN  IF e = "." THEN RemoveDots(Tail(segs), IF last THEN Append(acc, "") ELSE acc)
             ELSE IF e = ".."
                  THEN LET up == IF acc = <<>> THEN acc ELSE SubSeq(acc, 1, Len(acc) - 1)
                       IN  RemoveDots(Tail(segs), IF last THEN Append(up, "") ELSE up)
             ELSE RemoveDots(Tail(segs), Append(acc, e))

\* url.resolvePath(base, ref): ref's path replaces the base path from its last "/".
ResolvePath(base, ref) ==
    LET full == IF ref.path = <<>> THEN base
                ELSE IF ref.rooted THEN ref.path
                ELSE (IF base = <<>> THEN <<>> ELSE SubSeq(base, 1, Len(base) - 1)) \o ref.path
    IN  RemoveDots(full, <<>>)

\* (*URL).ResolveReference for a reference without a scheme (the only use, line 262).
ResolveReference(base, ref) ==
    IF ref.host # ""
    THEN [scheme |-> base.scheme, host |-> ref.host,
          path |-> RemoveDots(ref.path, <<>>), query |-> ref.query]
    ELSE [scheme |-> base.scheme, host |-> base.host,
          path |-> ResolvePath(base.path, ref),
          query |-> IF ref.path = <<>> /\ ref.query = "" THEN base.query ELSE ref.query]

\* The URL a parsed Location denotes when it carries its own scheme (IsAbs).
RefURL(ref) == [scheme |-> ref.scheme, host |-> ref.host, path |-> ref.path, query |-> ref.query]

\* Hosts the URL parser rejects (a space in the authority).
ValidHost(h) == h # "bad host.io"

(***************************************************************************)
(* Values exchanged with the environment                                   *)
(***************************************************************************)
Loc(kind, scheme, host, rooted, path, query) ==
    [kind |-> kind, scheme |-> scheme, host |-> host, rooted |-> rooted,
     path |-> path, query |-> query]

LocMissing == Loc("missing", "", "", FALSE, <<>>, "")      \* no Location header
LocInvalid == Loc("invalid", "", "", FALSE, <<>>, "")      \* url.Parse fails, e.g. "%zz"
LocAbs     == Loc("ref", "https", "cdn.example", TRUE, <<"blobs", "sha">>, "sig=1")
LocRooted  == Loc("ref", "", "", TRUE, <<"token", "x">>, "")
LocRel     == Loc("ref", "", "", FALSE, <<"..", "blobs", "sha">>, "")

Locations == {LocMissing, LocInvalid, LocAbs, LocRooted, LocRel}

\* Content-Length header values, as character sequences.
CLNone  == <<>>
CLBad   == <<"1", "x">>
CLAtMB  == <<"1", "0", "4", "8", "5", "7", "6">>
CLOver  == <<"+", "1", "0", "4", "8", "5", "7", "7">>

ContentLengths == {CLNone, CLBad, CLAtMB, CLOver}

\* cfg.Server.SizeLimit (megabytes) and cfg.RateLimit.BandwidthLimit.Enabled, read at
\* lines 307 and 334.
SizeLimits == {0, 1}
FinalCfgs == [sizeLimit : SizeLimits, bandwidthLimit : BOOLEAN]

Rsp(from, status, loc, cl, url) ==
    [from |-> from, status |-> status, loc |-> loc, cl |-> cl, url |-> url]

NoResp == Rsp("none", 0, LocMissing, CLNone, NoURL)

\* What the registry may answer to the initial request and to the retry:
\* Location is read only on 302/307 (line 245), Content-Length only otherwise
\* (lines 308-317, whatever the status); every Content-Length comes with a 200,
\* the absent and the oversized one with the other statuses too.
RegistryAnswers ==
    [status : {200}, loc : {LocMissing}, cl : ContentLengths]
        \cup [status : {401, 404}, loc : {LocMissing}, cl : {CLNone, CLOver}]
        \cup [status : {302}, loc : Locations, cl : {CLNone}]
        \cup [status : {307}, loc : {LocMissing, LocRel}, cl : {CLNone}]

\* What the redirect target may answer (its Location is never read).
RedirectAnswers ==
    [status : {200}, loc : {LocMissing}, cl : ContentLengths]
        \cup [status : {302, 404}, loc : {LocMissing}, cl : {CLNone, CLOver}]

\* Www-Authenticate of the /v2/ probe, as parseBearerWWWAuthenticateHeader sees it.
WwwAuthenticate ==
    { [kind |-> "missing",   realm |-> NoURL, service |-> ""],
      [kind |-> "malformed", realm |-> NoURL, service |-> ""],
      [kind |-> "bearer", service |-> "registry.docker.io",
       realm |-> [scheme |-> "https", host |-> "auth.docker.io", path |-> <<"token">>, query |-> ""]],
      [kind |-> "bearer", service |-> "svc",
       realm |-> [scheme |-> "https", host |-> "bad host.io", path |-> <<"token">>, query |-> ""]] }

\* Outcomes of the token request: transport error, body read error, JSON decode
\* error, or a decoded AuthToken (Token "" when the field is absent or empty).
TokenOutcomes ==
    { [kind |-> k, token |-> NoToken] : k \in {"sendErr", "readErr", "decodeErr"} }
        \cup { [kind |-> "json", token |-> t] : t \in Tokens \cup {NoToken} }

(***************************************************************************)
(* The token cache (weakcache.Cache[string], consumed through Get and Put) *)
(***************************************************************************)
Users == {"a"}
Repos == {"x", "y"}
ImageKeys == {usr \o "/" \o rp : usr \in Users, rp \in Repos}

Absent == "<absent>"

CacheGet(cch, key) == [token |-> cch[key], exist |-> cch[key] # Absent]

CachePut(cch, key, token) == [cch EXCEPT ![key] = token]

\* The store never holds more than its capacity (100 entries, line 39): a Put that
\* adds an entry to a full store evicts another one.  The entries of the images
\* outside ImageKeys are not represented, so whether the store is full is open.
CachePuts(cch, key, token) ==
    {CachePut(cch, key, token)}
        \cup (IF cch[key] = Absent
              THEN { [CachePut(cch, key, token) EXCEPT ![k] = Absent] :
                       k \in {x \in DOMAIN cch : x # key /\ cch[x] # Absent} }
              ELSE {})

(***************************************************************************)
(* The request record                                                      *)
(***************************************************************************)
BodyKinds == {"initial", "probe", "token", "retry", "redirect"}

NoBody == [opened |-> FALSE, closes |-> 0, handoffs |-> 0, read |-> FALSE]

NoClient ==
    [method |-> "", uriPath |-> <<>>, uriQuery |-> "", userAgent |-> "",
     authorization |-> "", accept |-> "", body |-> "", bodyErr |-> FALSE]

IdleReq ==
    [pc |-> "idle", c |-> NoClient, dockerEnabled |-> TRUE, u |-> NoURL, target |-> "",
     image |-> NoImage, resp |-> NoResp, token |-> NoToken, nChallenge |-> 0,
     sent |-> <<>>, got |-> <<>>, bodies |-> [k \in BodyKinds |-> NoBody],
     client |-> <<>>, cacheOps |-> <<>>,
     \* bookkeeping for the properties: cfg.Docker.Enabled as the gate read it, the
     \* steps of GhcrRequest run so far, the response the redirect step examined,
     \* the size ceiling the size step read
     steps |-> <<>>, redir |-> NoResp, sizeLimit |-> 0]

\* The headers of an upstream request: the forced ones, and whether the client's
\* other headers were copied into it.
Hdr(host, authorization, accept, userAgent, copied) ==
    [Host |-> host, Authorization |-> authorization, Accept |-> accept,
     UserAgent |-> userAgent, copied |-> copied]

\* ghcrclient.Do(req): the request goes upstream.
Do(s, kind, method, url, hdr, body) ==
    [s EXCEPT !.sent = Append(@, [kind |-> kind, method |-> method, url |-> url,
                                  hdr |-> hdr, body |-> body])]

\* A response (and its open body) arrives for the request of that kind.
Receive(s, kind, status) ==
    [s EXCEPT !.got = Append(@, [kind |-> kind, status |-> status]),
              !.bodies[kind].opened = TRUE]

Close(s, kind) == [s EXCEPT !.bodies[kind].closes = @ + 1]

ReadAll(s, kind) == [s EXCEPT !.bodies[kind].read = TRUE]

\* Calls on the client context c that produce the client's response.
ClientOp(op, status, url, from, size, limited) ==
    [op |-> op, status |-> status, url |-> url, from |-> from, size |-> size,
     limited |-> limited]

\* HandleError(c, msg): the generic upstream-error page.
HandleError(s) ==
    [s EXCEPT !.client = Append(@, ClientOp("HandleError", 0, "", "none", 0, FALSE))]

\* ErrorPage(c, NewErrorWithStatusLookup(status, msg)).
ErrorPage(s, status) ==
    [s EXCEPT !.client = Append(@, ClientOp("ErrorPage", status, "", s.resp.from, 0, FALSE))]

\* c.Redirect(code, url).
Redirect(s, code, url) ==
    [s EXCEPT !.client = Append(@, ClientOp("Redirect", code, url, "none", 0, FALSE))]

\* c.SetHeaders(resp.Header); c.Status(resp.StatusCode); c.SetBodyStream(body, size):
\* the body of the working response is handed to the client transport.
SetBodyStream(s, size, limited) ==
    [s EXCEPT !.client = Append(@, ClientOp("Stream", s.resp.status, "", s.resp.from,
                                            size, limited)),
              !.bodies[s.resp.from].handoffs = @ + 1]

Return(s) == [s EXCEPT !.pc = "done"]

At(s, step) == [s EXCEPT !.steps = Append(@, step)]

(***************************************************************************)
(* GhcrRequest, last step first                                            *)
(***************************************************************************)
TransportError == [status |-> 0, loc |-> LocMissing, cl |-> CLNone]

IsErr(out) == out.status = 0

\* Mutant: the comparison of line 317 off by one.
ExceedsLimit_AtLeast(cl, sizeLimit) ==
    cl # CLNone /\ Atoi(cl).ok /\ Atoi(cl).val >= sizeLimit * MB

\* Lines 309-317: the size ceiling applies to a Content-Length that parses.
ExceedsLimit(cl, sizeLimit) ==
    cl # CLNone /\ Atoi(cl).ok /\ Atoi(cl).val > sizeLimit * MB

\* Lines 311-314 and 339-343: the size handed to SetBodyStream.
BodySize(cl) == IF cl # CLNone /\ Atoi(cl).ok THEN Atoi(cl).val ELSE -1

\* Lines 288-298: the upstream 404 is read, reported as the engine's own page, closed.
NotFound(s) ==
    Return(Close(ErrorPage(ReadAll(At(s, "notfound"), s.resp.from), 404), s.resp.from))

\* Lines 317-323: too large, the client is sent to the upstream URL itself.
TooLarge(s) ==
    Return(Redirect(Close(s, s.resp.from), 301, URLString(s.resp.url)))

\* Lines 326-343: the working response is relayed.
Stream(s, fc) ==
    Return(SetBodyStream(At(s, "stream"), BodySize(s.resp.cl), fc.bandwidthLimit))

\* Lines 300-324: size enforcement.
SizeStep(s, fc) ==
    LET s1 == [At(s, "size") EXCEPT !.sizeLimit = fc.sizeLimit]
    IN  IF ExceedsLimit(s.resp.cl, fc.sizeLimit) THEN TooLarge(s1)
        ELSE Stream(s1, fc)

\* Mutant: the 404 test of line 288 dropped.
Finalize_NoNotFound(s, fc) == SizeStep(s, fc)

\* Lines 287-344.
Finalize(s, fc) ==
    IF s.resp.status = 404 THEN NotFound(s)
    ELSE SizeStep(s, fc)

\* Mutant: the follow-up request built like the retry (method, headers, token, body).
RedirectRequest_LikeRetry(s, redirectURL) ==
    [Do(s, "redirect", s.c.method, redirectURL,
        Hdr(redirectURL.host, IF s.token # NoToken THEN "Bearer " \o s.token ELSE s.c.authorization,
            s.c.accept, s.c.userAgent, TRUE),
        s.c.body) EXCEPT !.pc = "waitRedirect"]

\* Lines 270-284: the follow-up request, and the response that replaces resp.
RedirectRequest(s, redirectURL) ==
    IF ~ValidHost(redirectURL.host) THEN Return(HandleError(s))
    ELSE [Do(s, "redirect", "GET", redirectURL,
             Hdr("", "", "", s.c.userAgent, FALSE), "") EXCEPT !.pc = "waitRedirect"]

\* Lines 244-285.
RedirectStep(s0, fc) ==
    LET s == [At(s0, "redirect") EXCEPT !.redir = s0.resp]
    IN  IF s.resp.status \in {302, 307}
        THEN LET location == s.resp.loc
             IN  IF location.kind = "missing" THEN Return(HandleError(Close(s, s.resp.from)))
                 ELSE IF location.kind = "invalid"
                      THEN Return(HandleError(Close(s, s.resp.from)))
                 ELSE LET redirectURL == IF location.scheme # "" THEN RefURL(location)
                                         ELSE ResolveReference(s.resp.url, location)
                      IN  RedirectRequest(Close(s, s.resp.from), redirectURL)
        ELSE Finalize(s, fc)

\* Mutant: the cache is written whatever ChallengeReq returned (line 205 moved out
\* of the test of line 199).
ChallengeFailed_Puts(s, fc) ==
    RedirectStep([s EXCEPT !.cacheOps = Append(@, [op |-> "put", key |-> s.image,
                                                   val |-> NoToken])], fc)

\* Lines 236-239: no token, the original response stays the working response.
ChallengeFailed(s, fc) == RedirectStep(s, fc)

\* Mutant: line 201 (closing the stale body before the retry) forgotten.
ChallengeSucceeded_Leak(s, token) ==
    LET s1 == [s EXCEPT !.token = token]
        s2 == [s1 EXCEPT !.cacheOps = Append(@, [op |-> "put", key |-> s.image, val |-> token])]
    IN  [Do(s2, "retry", s.c.method, s.u,
            Hdr(s.target, "Bearer " \o token, s.c.accept, s.c.userAgent, TRUE),
            s.c.body) EXCEPT !.pc = "waitRetry"]

\* Mutant: the retry takes its token from the cache as the handler found it, and
\* only on a miss the one its challenge returned.
ChallengeSucceeded_Reread(s, token) ==
    LET s1   == Close([s EXCEPT !.token = token], "initial")
        s2   == [s1 EXCEPT !.cacheOps = Append(@, [op |-> "put", key |-> s.image, val |-> token])]
        used == IF CacheGet(cache, s.image).exist THEN CacheGet(cache, s.image).token ELSE token
    IN  IF ~ValidHost(s.u.host) THEN Return(HandleError(s2))
        ELSE [Do(s2, "retry", s.c.method, s.u,
                 Hdr(s.target, "Bearer " \o used, s.c.accept, s.c.userAgent, TRUE),
                 s.c.body) EXCEPT !.pc = "waitRetry"]

\* Lines 199-229: the stale body is closed, the token cached, the request resent.
ChallengeSucceeded(s, token) ==
    LET s1 == Close([s EXCEPT !.token = token], "initial")
        s2 == [s1 EXCEPT !.cacheOps = Append(@, [op |-> "put", key |-> s.image, val |-> token])]
    IN  IF ~ValidHost(s.u.host) THEN Return(HandleError(s2))
        ELSE [Do(s2, "retry", s.c.method, s.u,
                 Hdr(s.target, "Bearer " \o token, s.c.accept, s.c.userAgent, TRUE),
                 s.c.body) EXCEPT !.pc = "waitRetry"]

(***************************************************************************)
(* ChallengeReq                                                            *)
(***************************************************************************)
ProbeSendErr == [kind |-> "sendErr", realm |-> NoURL, service |-> ""]

\* parseBearerWWWAuthenticateHeader: only a Bearer challenge parses.
ParseBearer(h) == [ok |-> h.kind = "bearer", Realm |-> h.realm, Service |-> h.service]

\* Lines 400-423, after the token round trip; both deferred closes run on return.
OnTokenResponse(s, out, fc) ==
    IF out.kind = "sendErr" THEN ChallengeFailed(Close(s, "probe"), fc)
    ELSE LET s1    == ReadAll(Receive(s, "token", 200), "token")
             s2    == Close(Close(s1, "token"), "probe")
             token == IF out.kind = "json" THEN out.token ELSE NoToken
         IN  IF token # NoToken THEN ChallengeSucceeded(s2, token)
             ELSE ChallengeFailed(s2, fc)

\* Lines 369-400, after the /v2/ probe's round trip.
OnProbeResponse(s, out, fc) ==
    IF out.kind = "sendErr" THEN ChallengeFailed(HandleError(s), fc)
    ELSE LET s1     == Receive(s, "probe", 401)
             bearer == ParseBearer(out)
         IN  IF ~bearer.ok THEN ChallengeFailed(Close(s1, "probe"), fc)
             ELSE IF ~ValidHost(bearer.Realm.host) THEN ChallengeFailed(Close(s1, "probe"), fc)
             ELSE [Do(s1, "token", "GET",
                      [bearer.Realm EXCEPT !.query =
                          "service=" \o bearer.Service \o "&scope=repository:" \o s.image \o ":pull"],
                      Hdr(bearer.Service, "", "", "", FALSE), "")
                   EXCEPT !.pc = "waitToken"]

\* Lines 352-369: ChallengeReq up to its first round trip.
ChallengeReq(s, fc) ==
    LET s1 == [At(s, "challenge") EXCEPT !.nChallenge = @ + 1]
    IN  IF ~ValidHost(s.target) THEN ChallengeFailed(HandleError(s1), fc)
        ELSE [Do(s1, "probe", "GET",
                 [scheme |-> "https", host |-> s.target, path |-> <<"v2", "">>, query |-> ""],
                 Hdr(s.target, "", "", "", FALSE), "")
              EXCEPT !.pc = "waitProbe"]

(***************************************************************************)
(* GhcrRequest, first steps                                                *)
(***************************************************************************)
\* Mutant: the /v2/ exemption of line 186 dropped.
ShouldRetry_Always(s) == TRUE

\* Line 186.
ShouldRetry(s) == PathStr(s.c.uriPath) # "/v2/"

\* Mutant: line 184 tests for any status but 200.
AuthStep_Not200(s, fc) ==
    IF s.resp.status # 200 /\ ShouldRetry(s)
    THEN IF s.image = NoImage
         THEN Return(ErrorPage(Close(s, "initial"), s.resp.status))
         ELSE ChallengeReq(s, fc)
    ELSE RedirectStep(s, fc)

\* Mutant: without an image the original response is relayed (lines 191-195 dropped).
AuthStep_NilImageRelays(s, fc) ==
    IF s.resp.status \in {401, 404} /\ ShouldRetry(s) /\ s.image # NoImage
    THEN ChallengeReq(s, fc)
    ELSE RedirectStep(s, fc)

\* Lines 184-241.
AuthStep(s, fc) ==
    IF s.resp.status \in {401, 404} /\ ShouldRetry(s)
    THEN IF s.image = NoImage
         THEN Return(ErrorPage(Close(s, "initial"), s.resp.status))
         ELSE ChallengeReq(s, fc)
    ELSE RedirectStep(s, fc)

\* Lines 177-183, after the initial round trip.
OnInitialResponse(s, out, fc) ==
    IF IsErr(out) THEN Return(HandleError(s))
    ELSE AuthStep([Receive(s, "initial", out.status) EXCEPT
                     !.resp = Rsp("initial", out.status, out.loc, out.cl, s.u)], fc)

\* Mutant: the redirect target's response is put through the redirect step again.
OnRedirectResponse_Follow(s, out, fc) ==
    IF IsErr(out) THEN Return(HandleError(s))
    ELSE RedirectStep([Receive(s, "redirect", out.status) EXCEPT
                         !.resp = Rsp("redirect", out.status, out.loc, out.cl,
                                      s.sent[Len(s.sent)].url)], fc)

\* Lines 278-284, after the redirect round trip.
OnRedirectResponse(s, out, fc) ==
    IF IsErr(out) THEN Return(HandleError(s))
    ELSE Finalize([Receive(s, "redirect", out.status) EXCEPT
                     !.resp = Rsp("redirect", out.status, out.loc, out.cl,
                                  s.sent[Len(s.sent)].url)], fc)

\* Mutant: line 235 (resp = resp_retry) forgotten.
OnRetryResponse_KeepInitial(s, out, fc) ==
    IF IsErr(out) THEN Return(HandleError(s))
    ELSE RedirectStep(Receive(s, "retry", out.status), fc)

\* Mutant: the retry's response is put through the 401/404 handling again.
OnRetryResponse_Reauth(s, out, fc) ==
    IF IsErr(out) THEN Return(HandleError(s))
    ELSE AuthStep([Receive(s, "retry", out.status) EXCEPT
                     !.resp = Rsp("retry", out.status, out.loc, out.cl, s.u)], fc)

\* Mutant: a failed retry send (line 230) falls back on the original response.
OnRetryResponse_ErrFallsBack(s, out, fc) ==
    IF IsErr(out) THEN RedirectStep(s, fc)
    ELSE RedirectStep([Receive(s, "retry", out.status) EXCEPT
                         !.resp = Rsp("retry", out.status, out.loc, out.cl, s.u)], fc)

\* Lines 229-235, after the retry round trip.
OnRetryResponse(s, out, fc) ==
    IF IsErr(out) THEN Return(HandleError(s))
    ELSE RedirectStep([Receive(s, "retry", out.status) EXCEPT
                         !.resp = Rsp("retry", out.status, out.loc, out.cl, s.u)], fc)

\* Mutant: an Authorization header of the client kept on a cache hit.
InitialAuthorization_ClientFirst(c, image, cch) ==
    IF c.authorization # "" THEN c.authorization
    ELSE IF image # NoImage /\ CacheGet(cch, image).exist
         THEN "Bearer " \o CacheGet(cch, image).token
    ELSE ""

\* Lines 168-174: the Authorization of the initial request.
InitialAuthorization(c, image, cch) ==
    IF image # NoImage /\ CacheGet(cch, image).exist
    THEN "Bearer " \o CacheGet(cch, image).token
    ELSE c.authorization

\* Lines 129-177: GhcrRequest up to its first round trip.
GhcrRequest(c, u, image, target, cch) ==
    LET s0 == [IdleReq EXCEPT !.c = c, !.u = u, !.image = image, !.target = target]
        s1 == IF image # NoImage
              THEN [s0 EXCEPT !.cacheOps = Append(@, [op |-> "get", key |-> image,
                                                      val |-> CacheGet(cch, image).token])]
              ELSE s0
    IN  IF c.bodyErr THEN Return(HandleError(s0))
        ELSE IF ~ValidHost(u.host) THEN Return(HandleError(s0))
        ELSE [Do(s1, "initial", c.method, u,
                 Hdr(target, InitialAuthorization(c, image, cch), c.accept, c.userAgent, TRUE),
                 c.body) EXCEPT !.pc = "waitInitial"]

(***************************************************************************)
(* GhcrToTarget and GhcrWithImageRouting                                   *)
(***************************************************************************)
\* Mutant: the configured default consulted before the explicit target.
UpstreamTarget_DefaultFirst(cfg, target) ==
    CASE cfg.dockerTarget = "ghcr"      -> ghcrTarget
      [] cfg.dockerTarget = "dockerhub" -> dockerhubTarget
      [] cfg.dockerTarget # ""          -> cfg.dockerTarget
      [] OTHER                          -> target

\* Lines 97-122: the upstream host, "" when the request is rejected.
UpstreamTarget(cfg, target) ==
    IF target # "" THEN target
    ELSE CASE cfg.dockerTarget = "ghcr"      -> ghcrTarget
           [] cfg.dockerTarget = "dockerhub" -> dockerhubTarget
           [] OTHER                          -> cfg.dockerTarget

\* Lines 101-104 and 120: the destination URL.
DestUrl(c, cfg, target, path) ==
    IF target # ""
    THEN [scheme |-> "https", host |-> target, path |-> <<"v2">> \o path, query |-> c.uriQuery]
    ELSE [scheme |-> "https", host |-> UpstreamTarget(cfg, target), path |-> c.uriPath,
          query |-> c.uriQuery]

\* Mutant: the gate of lines 88-91 dropped.
GhcrToTarget_NoGate(c, cfg, target, path, image, cch) ==
    LET s0 == [IdleReq EXCEPT !.c = c, !.image = image, !.dockerEnabled = cfg.dockerEnabled]
    IN  IF target = "" /\ cfg.dockerTarget = "" THEN Return(ErrorPage(s0, 403))
        ELSE [GhcrRequest(c, DestUrl(c, cfg, target, path), image,
                          UpstreamTarget(cfg, target), cch)
              EXCEPT !.dockerEnabled = cfg.dockerEnabled]

\* Lines 86-126.
GhcrToTarget(c, cfg, target, path, image, cch) ==
    LET s0 == [IdleReq EXCEPT !.c = c, !.image = image, !.dockerEnabled = cfg.dockerEnabled]
    IN  IF ~cfg.dockerEnabled THEN Return(ErrorPage(s0, 403))
        ELSE IF target = "" /\ cfg.dockerTarget = "" THEN Return(ErrorPage(s0, 403))
        ELSE [GhcrRequest(c, DestUrl(c, cfg, target, path), image,
                          UpstreamTarget(cfg, target), cch)
              EXCEPT !.dockerEnabled = cfg.dockerEnabled]

\* Mutant: the docker.io alias of lines 57-58 dropped.
RouteTarget_NoAlias(labels) == IF Len(labels) >= 2 THEN HostStr(labels) ELSE ""

\* Lines 55-71: the registry a route target names; labels are the target's
\* dot-separated parts.
RouteTarget(labels) ==
    LET reqTarget == HostStr(labels)
        n == Len(labels)
    IN  CASE reqTarget = "docker.io" -> dockerhubTarget
          [] reqTarget = "ghcr.io"   -> ghcrTarget
          [] (n >= 3 /\ labels[n - 1] = "gcr" /\ labels[n] = "io") \/ reqTarget = "gcr.io"
                                     -> reqTarget
          [] OTHER                   -> IF n >= 2 THEN reqTarget ELSE ""

\* Lines 44-83.
GhcrWithImageRouting(c, cfg, labels, reqImageUser, reqImageName, reqFilePath, cch) ==
    GhcrToTarget(c, cfg, RouteTarget(labels),
                 <<reqImageUser, reqImageName>> \o reqFilePath,
                 reqImageUser \o "/" \o reqImageName, cch)

(***************************************************************************)
(* The client requests and configurations the model runs                   *)
(***************************************************************************)
ClientTemplates ==
    { [NoClient EXCEPT !.method = "GET", !.userAgent = "docker/24",
                       !.accept = "application/vnd.oci.image.manifest.v1+json"],
      [NoClient EXCEPT !.method = "POST", !.userAgent = "curl/8", !.authorization = "Basic Zm9v",
                       !.body = "payload", !.uriQuery = "n=1"],
      [NoClient EXCEPT !.method = "GET", !.bodyErr = TRUE] }

EntryCfgs == [dockerEnabled : BOOLEAN, dockerTarget : {"", "ghcr"}]

ReqTargets == { <<>>, <<"docker", "io">>, <<"bad host", "io">> }

FilePaths == { <<"manifests", "latest">> }

\* The request URI of a routed request: /v2/[<target>/]<user>/<repo><filepath>.
RoutedPath(labels, usr, rp, fp) ==
    <<"v2">> \o (IF labels = <<>> THEN <<>> ELSE <<HostStr(labels)>>) \o <<usr, rp>> \o fp

\* Request URIs of direct calls of GhcrToTarget.
DirectPaths == { <<"v2", "">>, <<"v2", "a", "x", "tags", "list">> }

(***************************************************************************)
(* Actions                                                                 *)
(***************************************************************************)
\* No function of the package is under examination on its own.
NoCall == [fn |-> "none", pc |-> "none"]

Init ==
    /\ cache = [k \in ImageKeys |-> Absent]
    /\ req = [r \in Reqs |-> IdleReq]
    /\ call = NoCall

\* The caches that may follow the Put a handler segment logged.
CacheAfter(old, new) ==
    IF Len(new.cacheOps) > Len(old.cacheOps) /\ new.cacheOps[Len(new.cacheOps)].op = "put"
    THEN CachePuts(cache, new.cacheOps[Len(new.cacheOps)].key, new.cacheOps[Len(new.cacheOps)].val)
    ELSE {cache}

Step(r, new) ==
    /\ req' = [req EXCEPT ![r] = new]
    /\ cache' \in CacheAfter(req[r], new)
    /\ UNCHANGED call

\* A request arrives on the image route.
Route(r) ==
    /\ req[r].pc = "idle"
    /\ \E t \in ClientTemplates, cfg \in EntryCfgs, labels \in ReqTargets,
          usr \in Users, rp \in Repos, fp \in FilePaths :
          Step(r, GhcrWithImageRouting([t EXCEPT !.uriPath = RoutedPath(labels, usr, rp, fp)],
                                       cfg, labels, usr, rp, fp, cache))

\* Another handler of the package calls GhcrToTarget itself.
Call(r) ==
    /\ req[r].pc = "idle"
    /\ \E t \in ClientTemplates, cfg \in EntryCfgs, target \in {"", ghcrTarget},
          p \in DirectPaths, image \in {"a/x", NoImage} :
          Step(r, GhcrToTarget([t EXCEPT !.uriPath = p], cfg, target, Tail(p), image, cache))

InitialResponse(r) ==
    /\ req[r].pc = "waitInitial"
    /\ \E out \in RegistryAnswers \cup {TransportError}, fc \in FinalCfgs :
          Step(r, OnInitialResponse(req[r], out, fc))

ProbeResponse(r) ==
    /\ req[r].pc = "waitProbe"
    /\ \E out \in WwwAuthenticate \cup {ProbeSendErr}, fc \in FinalCfgs :
          Step(r, OnProbeResponse(req[r], out, fc))

TokenResponse(r) ==
    /\ req[r].pc = "waitToken"
    /\ \E out \in TokenOutcomes, fc \in FinalCfgs :
          Step(r, OnTokenResponse(req[r], out, fc))

RetryResponse(r) ==
    /\ req[r].pc = "waitRetry"
    /\ \E out \in RegistryAnswers \cup {TransportError}, fc \in FinalCfgs :
          Step(r, OnRetryResponse(req[r], out, fc))

RedirectResponse(r) ==
    /\ req[r].pc = "waitRedirect"
    /\ \E out \in RedirectAnswers \cup {TransportError}, fc \in FinalCfgs :
          Step(r, OnRedirectResponse(req[r], out, fc))

\* The handler has returned; the slot serves the next request.
Finish(r) ==
    /\ req[r].pc = "done"
    /\ req' = [req EXCEPT ![r] = IdleReq]
    /\ UNCHANGED <<cache, call>>

\* The weak cache drops an entry (expiry or eviction).
Expire ==
    /\ \E k \in ImageKeys : cache[k] # Absent /\ cache' = [cache EXCEPT ![k] = Absent]
    /\ UNCHANGED <<req, call>>

Next ==
    \/ \E r \in SeqReqs :
          \/ Route(r)
          \/ Call(r)
          \/ InitialResponse(r)
          \/ ProbeResponse(r)
          \/ TokenResponse(r)
          \/ RetryResponse(r)
          \/ RedirectResponse(r)
          \/ Finish(r)
    \/ Expire

Spec == Init /\ [][Next]_vars

(***************************************************************************)
(* Target resolution on its own: one routed request per behaviour, over    *)
(* every kind of route target and configured default                       *)
(***************************************************************************)
RouteTargets ==
    { <<>>, <<"docker", "io">>, <<"ghcr", "io">>, <<"gcr", "io">>, <<"us", "gcr", "io">>,
      <<"xgcr", "io">>, <<"registry", "example", "com">>, <<"local">> }

DockerTargets == {"", "ghcr", "dockerhub", "mirror.example"}

RouteCfgs == [dockerEnabled : BOOLEAN, dockerTarget : DockerTargets]

RouteCalls ==
    [fn : {"GhcrWithImageRouting"}, pc : {"called"}, labels : RouteTargets, cfg : RouteCfgs,
     uriQuery : {"", "n=1"}, user : Users, repo : Repos, filepath : FilePaths]

\* The client request of a routed call.
RouteClient(k) ==
    [NoClient EXCEPT !.method = "GET", !.uriQuery = k.uriQuery,
                     !.uriPath = RoutedPath(k.labels, k.user, k.repo, k.filepath)]

InitResolve ==
    /\ cache = [k \in ImageKeys |-> Absent]
    /\ req = [r \in Reqs |-> IdleReq]
    /\ call \in RouteCalls

\* The router invokes the handler GhcrWithImageRouting returned.
RouteCalled ==
    /\ call.pc = "called"
    /\ req' = [req EXCEPT ![1] = GhcrWithImageRouting(RouteClient(call), call.cfg, call.labels,
                                                      call.user, call.repo, call.filepath, cache)]
    /\ call' = [call EXCEPT !.pc = "returned"]
    /\ UNCHANGED cache

NextResolve == RouteCalled

SpecResolve == InitResolve /\ [][NextResolve]_vars

(***************************************************************************)
(* Matcher (match.go).  A string is the sequence of its characters.        *)
(***************************************************************************)
githubPrefix ==
    <<"h", "t", "t", "p", "s", ":", "/", "/", "g", "i", "t", "h", "u", "b", ".", "c", "o", "m", "/">>
rawPrefix ==
    <<"h", "t", "t", "p", "s", ":", "/", "/", "r", "a", "w", ".", "g", "i", "t", "h", "u", "b", "u", "s", "e", "r", "c", "o", "n", "t", "e", "n", "t", ".", "c", "o", "m", "/">>
gistPrefix ==
    <<"h", "t", "t", "p", "s", ":", "/", "/", "g", "i", "s", "t", ".", "g", "i", "t", "h", "u", "b", ".", "c", "o", "m", "/">>
gistContentPrefix ==
    <<"h", "t", "t", "p", "s", ":", "/", "/", "g", "i", "s", "t", ".", "g", "i", "t", "h", "u", "b", "u", "s", "e", "r", "c", "o", "n", "t", "e", "n", "t", ".", "c", "o", "m", "/">>
apiPrefix ==
    <<"h", "t", "t", "p", "s", ":", "/", "/", "a", "p", "i", ".", "g", "i", "t", "h", "u", "b", ".", "c", "o", "m", "/">>
releasesDownloadSnippet ==
    <<"r", "e", "l", "e", "a", "s", "e", "s", "/", "d", "o", "w", "n", "l", "o", "a", "d", "/">>

wReleases == <<"r", "e", "l", "e", "a", "s", "e", "s">>
wArchive == <<"a", "r", "c", "h", "i", "v", "e">>
wBlob == <<"b", "l", "o", "b">>
wRaw == <<"r", "a", "w">>
wInfo == <<"i", "n", "f", "o">>
wGitUploadPack == <<"g", "i", "t", "-", "u", "p", "l", "o", "a", "d", "-", "p", "a", "c", "k">>
wReposSlash == <<"r", "e", "p", "o", "s", "/">>
wUsersSlash == <<"u", "s", "e", "r", "s", "/">>

\* strings.HasPrefix
HasPrefix(str, prefix) ==
    Len(str) >= Len(prefix) /\ SubSeq(str, 1, Len(prefix)) = prefix

\* strings.IndexByte: the 0-based index of the first ch, -1 when there is none.
IndexByte(str, c) ==
    IF \E i \in 1..Len(str) : str[i] = c
    THEN (CHOOSE i \in 1..Len(str) : str[i] = c /\ \A j \in 1..(i - 1) : str[j] # c) - 1
    ELSE -1

\* str[:n] and str[n:]
Before(str, n) == SubSeq(str, 1, n)
From(str, n) == SubSeq(str, n + 1, Len(str))

\* strings.SplitN(str, "/", n) for n > 0: at most n parts, the last one unsplit.
RECURSIVE SplitN(_, _)
SplitN(str, n) ==
    LET i == IndexByte(str, "/")
    IN  IF n <= 1 \/ i = -1 THEN <<str>>
        ELSE <<Before(str, i)>> \o SplitN(From(str, i + 1), n - 1)

\* The four results of Matcher; err is NoErr for nil.
NoErr == [status |-> 0, msg |-> ""]

MatchOk(user, repo, matcher) ==
    [user |-> user, repo |-> repo, matcher |-> matcher, err |-> NoErr]

\* return "", "", "", NewErrorWithStatusLookup(status, msg)
MatchErr(status, msg) ==
    [user |-> <<>>, repo |-> <<>>, matcher |-> "", err |-> [status |-> status, msg |-> msg]]

\* Mutant: the releases/download/ test of line 69 dropped.
MatchGithub_AnyReleases(rest) ==
    LET i == IndexByte(rest, "/")
    IN  IF i <= 0 THEN MatchErr(400, "malformed github path: missing user")
        ELSE
        LET user       == Before(rest, i)
            remaining  == From(rest, i + 1)
            j          == IndexByte(remaining, "/")
        IN  IF j <= 0 THEN MatchErr(400, "malformed github path: missing repo")
            ELSE
            LET repo   == Before(remaining, j)
                tail   == From(remaining, j + 1)
                k      == IndexByte(tail, "/")
                action == IF k # -1 THEN Before(tail, k) ELSE tail
            IN  IF Len(tail) = 0 THEN MatchErr(400, "malformed github path: missing action")
                ELSE CASE action = wReleases ->
                            MatchOk(user, repo, "releases")
                       [] action = wArchive -> MatchOk(user, repo, "releases")
                       [] action = wBlob    -> MatchOk(user, repo, "blob")
                       [] action = wRaw     -> MatchOk(user, repo, "raw")
                       [] action \in {wInfo, wGitUploadPack} -> MatchOk(user, repo, "clone")
                       [] OTHER -> MatchErr(400, "unsupported github action: %s")

\* Lines 45-85: what follows https://github.com/.
MatchGithub(rest) ==
    LET i == IndexByte(rest, "/")
    IN  IF i <= 0 THEN MatchErr(400, "malformed github path: missing user")
        ELSE
        LET user       == Before(rest, i)
            remaining  == From(rest, i + 1)
            j          == IndexByte(remaining, "/")
        IN  IF j <= 0 THEN MatchErr(400, "malformed github path: missing repo")
            ELSE
            LET repo   == Before(remaining, j)
                tail   == From(remaining, j + 1)
                k      == IndexByte(tail, "/")
                action == IF k # -1 THEN Before(tail, k) ELSE tail
            IN  IF Len(tail) = 0 THEN MatchErr(400, "malformed github path: missing action")
                ELSE CASE action = wReleases ->
                            IF HasPrefix(tail, releasesDownloadSnippet)
                            THEN MatchOk(user, repo, "releases")
                            ELSE MatchErr(400, "malformed github path: not a releases download url")
                       [] action = wArchive -> MatchOk(user, repo, "releases")
                       [] action = wBlob    -> MatchOk(user, repo, "blob")
                       [] action = wRaw     -> MatchOk(user, repo, "raw")
                       [] action \in {wInfo, wGitUploadPack} -> MatchOk(user, repo, "clone")
                       [] OTHER -> MatchErr(400, "unsupported github action: %s")

\* Lines 90-109: what follows https://raw.githubusercontent.com/.
MatchRaw(rest) ==
    LET i == IndexByte(rest, "/")
    IN  IF i <= 0 THEN MatchErr(400, "malformed raw url: missing user")
        ELSE
        LET user      == Before(rest, i)
            remaining == From(rest, i + 1)
            j         == IndexByte(remaining, "/")
        IN  IF j <= 0 THEN MatchErr(400, "malformed raw url: missing repo")
            ELSE IF Len(From(remaining, j + 1)) = 0
                 THEN MatchErr(400, "malformed raw url: missing branch/commit")
            ELSE MatchOk(user, Before(remaining, j), "raw")

\* Lines 114-126 and 131-143: what follows either gist prefix.
MatchGist(remaining) ==
    LET i == IndexByte(remaining, "/")
    IN  IF i <= 0
        THEN IF Len(remaining) > 0 THEN MatchOk(remaining, <<>>, "gist")
             ELSE MatchErr(400, "malformed gist url: missing user")
        ELSE MatchOk(Before(remaining, i), <<>>, "gist")

\* Mutant: the auth method of line 148 not looked at.
ApiAllowed_AnyMethod(cfg) == cfg.ForceAllowApi \/ cfg.Enabled

\* Line 148: the API proxy is allowed.
ApiAllowed(cfg) ==
    ~(~cfg.ForceAllowApi /\ (cfg.Method # "header" \/ ~cfg.Enabled))

\* Lines 148-165: what follows https://api.github.com/.
MatchApi(remaining, cfg) ==
    IF ~ApiAllowed(cfg) THEN MatchErr(403, "API proxy requires header authentication")
    ELSE IF HasPrefix(remaining, wReposSlash)
         THEN LET parts == SplitN(From(remaining, 6), 3)
              IN  IF Len(parts) >= 2 THEN MatchOk(parts[1], parts[2], "api")
                  ELSE MatchOk(<<>>, <<>>, "api")
    ELSE IF HasPrefix(remaining, wUsersSlash)
         THEN LET parts == SplitN(From(remaining, 6), 2)
              IN  IF Len(parts) >= 1 THEN MatchOk(parts[1], <<>>, "api")
                  ELSE MatchOk(<<>>, <<>>, "api")
    ELSE MatchOk(<<>>, <<>>, "api")

\* Mutant: the final error of line 168 replaced by an empty success.
Matcher_NoFinalError(rawPath, cfg) ==
    IF Len(rawPath) < 18 THEN MatchErr(404, "path too short")
    ELSE IF HasPrefix(rawPath, githubPrefix)
         THEN MatchGithub(From(rawPath, Len(githubPrefix)))
    ELSE IF HasPrefix(rawPath, rawPrefix)
         THEN MatchRaw(From(rawPath, Len(rawPrefix)))
    ELSE IF HasPrefix(rawPath, gistPrefix)
         THEN MatchGist(From(rawPath, Len(gistPrefix)))
    ELSE IF HasPrefix(rawPath, gistContentPrefix)
         THEN MatchGist(From(rawPath, Len(gistContentPrefix)))
    ELSE IF HasPrefix(rawPath, apiPrefix)
         THEN MatchApi(From(rawPath, Len(apiPrefix)), cfg)
    ELSE MatchOk(<<>>, <<>>, "")

\* Lines 38-169.
Matcher(rawPath, cfg) ==
    IF Len(rawPath) < 18 THEN MatchErr(404, "path too short")
    ELSE IF HasPrefix(rawPath, githubPrefix)
         THEN MatchGithub(From(rawPath, Len(githubPrefix)))
    ELSE IF HasPrefix(rawPath, rawPrefix)
         THEN MatchRaw(From(rawPath, Len(rawPrefix)))
    ELSE IF HasPrefix(rawPath, gistPrefix)
         THEN MatchGist(From(rawPath, Len(gistPrefix)))
    ELSE IF HasPrefix(rawPath, gistContentPrefix)
         THEN MatchGist(From(rawPath, Len(gistContentPrefix)))
    ELSE IF HasPrefix(rawPath, apiPrefix)
         THEN MatchApi(From(rawPath, Len(apiPrefix)), cfg)
    ELSE MatchErr(404, "no matcher found for the given path")

(***************************************************************************)
(* Matcher on its own: one call per behaviour, over URLs made of a prefix  *)
(* and up to MaxSegs path segments                                         *)
(***************************************************************************)
MaxSegs == 5

wA == <<"a">>
wB == <<"b">>
wF == <<"f">>
wRepos == <<"r", "e", "p", "o", "s">>
wUsers == <<"u", "s", "e", "r", "s">>
wTree == <<"t", "r", "e", "e">>
wDownload == <<"d", "o", "w", "n", "l", "o", "a", "d">>
wDownloads == <<"d", "o", "w", "n", "l", "o", "a", "d", "s">>

\* The segments tried at each position of the path; <<>> is the empty segment.
SegmentsAt(i) ==
    CASE i = 1 -> {<<>>, wA, wRepos, wUsers}
      [] i = 2 -> {<<>>, wB}
      [] i = 3 -> {<<>>, wReleases, wArchive, wBlob, wRaw, wInfo, wGitUploadPack, wTree}
      [] i = 4 -> {<<>>, wDownload, wDownloads}
      [] OTHER -> {<<>>, wF}

RECURSIVE SegLists(_)
SegLists(n) ==
    IF n = 0 THEN {<<>>}
    ELSE {Append(l, w) : l \in SegLists(n - 1), w \in SegmentsAt(n)}

RECURSIVE JoinSegs(_)
JoinSegs(segs) ==
    IF segs = <<>> THEN <<>>
    ELSE IF Len(segs) = 1 THEN segs[1]
    ELSE segs[1] \o <<"/">> \o JoinSegs(Tail(segs))

Prefixes == {githubPrefix, rawPrefix, gistPrefix, gistContentPrefix, apiPrefix}

\* Inputs that carry none of the five prefixes, shorter and longer than 18.
OtherPaths ==
    { <<>>,
      <<"h", "t", "t", "p", "s", ":", "/", "/", "g", "i", "t", "h", "u", "b", ".", "c", "o">>,
      <<"h", "t", "t", "p", "s", ":", "/", "/", "g", "i", "t", "h", "u", "b", ".", "c", "o", "m">>,
      <<"h", "t", "t", "p", ":", "/", "/", "g", "i", "t", "h", "u", "b", ".", "c", "o", "m", "/", "a", "/", "b", "/", "b", "l", "o", "b", "/", "f">>,
      <<"h", "t", "t", "p", "s", ":", "/", "/", "g", "i", "t", "l", "a", "b", ".", "c", "o", "m", "/", "a", "/", "b", "/", "b", "l", "o", "b", "/", "f">>,
      <<"h", "t", "t", "p", "s", ":", "/", "/", "a", "p", "i", ".", "g", "i", "t", "h", "u", "b", ".", "c", "o", "m">> }

RawPaths ==
    {p \o JoinSegs(segs) : p \in Prefixes, segs \in UNION {SegLists(n) : n \in 0..MaxSegs}}
        \cup OtherPaths

\* cfg.Auth
AuthCfgs == [ForceAllowApi : BOOLEAN, Method : {"header", "parameters"}, Enabled : BOOLEAN]

NoResult == [user |-> <<>>, repo |-> <<>>, matcher |-> "", err |-> NoErr]

MatcherCalls ==
    [fn : {"Matcher"}, pc : {"called"}, rawPath : RawPaths, cfg : AuthCfgs, out : {NoResult}]

InitMatcher ==
    /\ cache = [k \in ImageKeys |-> Absent]
    /\ req = [r \in Reqs |-> IdleReq]
    /\ call \in MatcherCalls

\* Matcher runs to its return.
MatcherCalled ==
    /\ call.pc = "called"
    /\ call' = [call EXCEPT !.pc = "returned", !.out = Matcher(call.rawPath, call.cfg)]
    /\ UNCHANGED <<cache, req>>

NextMatcher == MatcherCalled

SpecMatcher == InitMatcher /\ [][NextMatcher]_vars

(***************************************************************************)
(* Concurrent requests: every slot handles one request, the handlers         *)
(* interleave at their upstream round trips and share the cache.  A segment  *)
(* between two round trips touches the cache at most once (the Get of line   *)
(* 170, the Put of line 205), so running it in one step loses no             *)
(* interleaving.                                                             *)
(***************************************************************************)
SharedClient == [NoClient EXCEPT !.method = "GET", !.userAgent = "docker/24"]

SharedCfg == [dockerEnabled |-> TRUE, dockerTarget |-> "ghcr"]

SharedFinalCfg == [sizeLimit |-> 1, bandwidthLimit |-> FALSE]

SharedTarget == <<"docker", "io">>

\* The registry's answers to the initial request and to the retry.
SharedAnswers == [status : {200, 401}, loc : {LocMissing}, cl : {CLNone}]

SharedChallenges == { w \in WwwAuthenticate : w.kind = "bearer" /\ ValidHost(w.realm.host) }

SharedTokenOutcomes ==
    { [kind |-> "sendErr", token |-> NoToken] }
        \cup { [kind |-> "json", token |-> t] : t \in Tokens \cup {NoToken} }

\* A client asks for an image while other requests are in flight.
Arrive(r) ==
    /\ req[r].pc = "idle"
    /\ \E usr \in Users, rp \in Repos, fp \in FilePaths :
          Step(r, GhcrWithImageRouting(
                      [SharedClient EXCEPT !.uriPath = RoutedPath(SharedTarget, usr, rp, fp)],
                      SharedCfg, SharedTarget, usr, rp, fp, cache))

InitialAnswered(r) ==
    /\ req[r].pc = "waitInitial"
    /\ \E out \in SharedAnswers :
          Step(r, OnInitialResponse(req[r], out, SharedFinalCfg))

ProbeAnswered(r) ==
    /\ req[r].pc = "waitProbe"
    /\ \E out \in SharedChallenges :
          Step(r, OnProbeResponse(req[r], out, SharedFinalCfg))

TokenAnswered(r) ==
    /\ req[r].pc = "waitToken"
    /\ \E out \in SharedTokenOutcomes :
          Step(r, OnTokenResponse(req[r], out, SharedFinalCfg))

RetryAnswered(r) ==
    /\ req[r].pc = "waitRetry"
    /\ \E out \in SharedAnswers :
          Step(r, OnRetryResponse(req[r], out, SharedFinalCfg))

NextShared ==
    \/ \E r \in Reqs :
          \/ Arrive(r)
          \/ InitialAnswered(r)
          \/ ProbeAnswered(r)
          \/ TokenAnswered(r)
          \/ RetryAnswered(r)
    \/ Expire

SpecShared == Init /\ [][NextShared]_vars

(***************************************************************************)
(* Reading a request's history                                             *)
(***************************************************************************)
SentOf(s, kind) == SelectSeq(s.sent, LAMBDA e : e.kind = kind)

GotOf(s, kind) == SelectSeq(s.got, LAMBDA e : e.kind = kind)

GotStatus(s, kind) == IF GotOf(s, kind) = <<>> THEN 0 ELSE GotOf(s, kind)[1].status

PutsOf(s) == SelectSeq(s.cacheOps, LAMBDA e : e.op = "put")

ClientOps(s, op) == SelectSeq(s.client, LAMBDA e : e.op = op)

Last(seq) == seq[Len(seq)]

\* The initial lookup missed: an image is present and the cache held no token for it.
CacheMiss(s) == s.cacheOps # <<>> /\ s.cacheOps[1].op = "get" /\ s.cacheOps[1].val = Absent

CacheHit(s) == s.cacheOps # <<>> /\ s.cacheOps[1].op = "get" /\ s.cacheOps[1].val # Absent

\* The case of C1: not /v2/, image present, cache miss, initial 401, challenge succeeded.
C1_Case(s) ==
    /\ PathStr(s.c.uriPath) # "/v2/"
    /\ s.image # NoImage
    /\ CacheMiss(s)
    /\ GotStatus(s, "initial") = 401
    /\ s.token # NoToken

\* The retry is the initial request again, with the new token.
C1_RetrySent(s) ==
    /\ Len(SentOf(s, "retry")) = 1
    /\ LET first == SentOf(s, "initial")[1]
           retry == SentOf(s, "retry")[1]
       IN  /\ retry.method = first.method
           /\ retry.url = first.url
           /\ retry.body = first.body
           /\ retry.hdr.Authorization = "Bearer " \o s.token

\* C1 as stated: on a cache miss, an initial 401 and a successful challenge, one
\* retry is sent, the token is stored under the image, and the status the client
\* observes is the retry's.
C1_Original ==
    \A r \in Reqs :
        LET s == req[r]
        IN  (C1_Case(s) /\ s.pc = "done") =>
                /\ C1_RetrySent(s)
                /\ PutsOf(s) = << [op |-> "put", key |-> s.image, val |-> s.token] >>
                /\ Len(s.client) = 1
                /\ s.client[1].op \in {"Stream", "ErrorPage"}
                /\ s.client[1].from = "retry"
                /\ s.client[1].status = GotStatus(s, "retry")

C1_Inv ==
    \A r \in Reqs :
        LET s == req[r]
        IN  C1_Case(s) =>
                /\ C1_RetrySent(s)
                /\ PutsOf(s) = << [op |-> "put", key |-> s.image, val |-> s.token] >>
                \* the initial response is never what the client gets
                /\ \A i \in 1..Len(s.client) : s.client[i].from # "initial"
                \* once the retry is answered, its response is the working response
                \* that enters the redirect step
                /\ GotOf(s, "retry") # <<>> =>
                      /\ s.redir.from = "retry"
                      /\ s.redir.status = GotStatus(s, "retry")
                      /\ s.resp.from \in {"retry", "redirect"}
                \* a retry send error ends the request with the error page alone
                /\ (s.pc = "done" /\ GotOf(s, "retry") = <<>>) =>
                      s.client = << ClientOp("HandleError", 0, "", "none", 0, FALSE) >>
                \* the client observes the retry's status unless the retry is redirected
                \* or too large
                /\ (s.pc = "done" /\ GotOf(s, "retry") # <<>> /\ SentOf(s, "redirect") = <<>>
                        /\ ClientOps(s, "Redirect") = <<>> /\ ClientOps(s, "HandleError") = <<>>) =>
                      /\ Len(s.client) = 1
                      /\ s.client[1].from = "retry"
                      /\ s.client[1].status = GotStatus(s, "retry")

\* The Put reaches the cache in the step that obtains the token.
C1_Stored ==
    \A r \in Reqs :
        (req[r].token = NoToken /\ req'[r].token # NoToken) =>
            cache'[req'[r].image] = req'[r].token

\* C1 (amended): in the case of C1 exactly one retry is sent, equal to the initial
\* request but for Authorization = Bearer <new token>; the token is stored under the
\* image string; the retry's response, never the initial one, is the working
\* response entering the redirect step; and the client observes the retry's status
\* unless the retry's send fails, the retry is redirected, or it is too large.
C1_RetryAfterChallenge == []C1_Inv /\ [][C1_Stored]_vars

C1_Witness ==
    \E r \in Reqs :
        /\ C1_Case(req[r]) /\ req[r].pc = "done"
        /\ GotStatus(req[r], "retry") = 200
        /\ req[r].client = << ClientOp("Stream", 200, "", "retry", 1048576, FALSE) >>
        /\ cache[req[r].image] = req[r].token

(***************************************************************************)
(* C2                                                                      *)
(***************************************************************************)
\* No challenge or retry traffic follows the redirect request.
NothingAfterRedirect(s) ==
    \A i \in 1..Len(s.sent) : s.sent[i].kind = "redirect" => i = Len(s.sent)

\* C2: one cycle invokes ChallengeReq at most once and sends at most one auth retry,
\* whatever the retry or the redirect target answers (401 and 404 included), and
\* the challenge step never runs after the redirect step.
C2_AtMostOneChallenge ==
    \A r \in Reqs :
        LET s == req[r]
        IN  /\ s.nChallenge <= 1
            /\ Len(SelectSeq(s.steps, LAMBDA x : x = "challenge")) = s.nChallenge
            /\ Len(SentOf(s, "probe")) <= 1
            /\ Len(SentOf(s, "token")) <= 1
            /\ Len(SentOf(s, "retry")) <= 1
            /\ NothingAfterRedirect(s)
            /\ \A i, j \in 1..Len(s.steps) :
                  (s.steps[i] = "redirect" /\ i < j) => s.steps[j] # "challenge"

C2_Witness ==
    \E r \in Reqs :
        /\ req[r].pc = "done"
        /\ GotStatus(req[r], "initial") = 401
        /\ GotStatus(req[r], "retry") = 302
        /\ GotStatus(req[r], "redirect") = 404
        /\ req[r].nChallenge = 1

(***************************************************************************)
(* C3                                                                      *)
(***************************************************************************)
\* C3: every upstream response body that was opened is closed exactly once or handed
\* to the client's streaming sink exactly once, never both and never neither, on
\* every exit path; the stale body is closed before the retry is issued, the
\* redirect response before the follow-up request, and the not-found and size-limit
\* exits close the body.
C3_BodiesClosedOnce ==
    \A r \in Reqs :
        LET s == req[r]
        IN  /\ \A k \in BodyKinds :
                  /\ s.bodies[k].closes + s.bodies[k].handoffs <= 1
                  /\ ~s.bodies[k].opened => s.bodies[k].closes + s.bodies[k].handoffs = 0
                  /\ (s.pc = "done" /\ s.bodies[k].opened) =>
                        s.bodies[k].closes + s.bodies[k].handoffs = 1
                  /\ s.bodies[k].handoffs = 1 =>
                        /\ k \in {"initial", "retry", "redirect"}
                        /\ Last(s.client).op = "Stream" /\ Last(s.client).from = k
            /\ SentOf(s, "retry") # <<>> =>
                  /\ s.bodies["initial"].closes = 1
                  /\ s.bodies["probe"].closes = 1
                  /\ s.bodies["token"].closes = 1
            /\ SentOf(s, "redirect") # <<>> => s.bodies[s.redir.from].closes = 1
            /\ (s.pc = "done" /\ s.steps # <<>> /\ Last(s.steps) \in {"notfound", "size"}) =>
                  s.bodies[s.resp.from].closes = 1

C3_Witness ==
    \E r \in Reqs :
        /\ req[r].pc = "done"
        /\ req[r].bodies["initial"].closes = 1
        /\ req[r].bodies["probe"].closes = 1
        /\ req[r].bodies["token"].closes = 1
        /\ req[r].bodies["retry"].closes = 1
        /\ req[r].bodies["redirect"].handoffs = 1

(***************************************************************************)
(* C4                                                                      *)
(***************************************************************************)
\* ChallengeReq was invoked and has returned the empty token.
ChallengeHasFailed(s) ==
    s.nChallenge = 1 /\ s.token = NoToken /\ s.pc \notin {"waitProbe", "waitToken"}

\* C4: whenever ChallengeReq fails, on any branch, it returns the empty token without
\* producing a client-facing response itself, the cache is left unchanged, no retry
\* is sent, and GhcrRequest proceeds with the original response, so the client
\* receives exactly one response.
C4_Original ==
    \A r \in Reqs :
        LET s == req[r]
        IN  ChallengeHasFailed(s) =>
                /\ PutsOf(s) = <<>>
                /\ SentOf(s, "retry") = <<>>
                /\ s.redir.from = "initial"
                /\ s.pc = "done" => Len(s.client) = 1

(***************************************************************************)
(* C5                                                                      *)
(***************************************************************************)
\* The URL of the request that produced the response the redirect step examined.
RedirectBase(s) == SentOf(s, s.redir.from)[1].url

\* Exactly one follow-up GET, to the location resolved against that URL.
C5_FollowUp(s) ==
    /\ Len(SentOf(s, "redirect")) = 1
    /\ LET e    == SentOf(s, "redirect")[1]
           loc  == s.redir.loc
           base == RedirectBase(s)
       IN  /\ e.method = "GET"
           /\ loc.scheme # "" =>
                 e.url = [scheme |-> loc.scheme, host |-> loc.host, path |-> loc.path,
                          query |-> loc.query]
           /\ loc.scheme = "" =>
                 /\ e.url.scheme = base.scheme
                 /\ e.url.host = (IF loc.host # "" THEN loc.host ELSE base.host)
                 /\ loc.rooted => e.url.path = loc.path
                 /\ loc = LocRel =>
                       e.url.path = SubSeq(base.path, 1, Len(base.path) - 2) \o <<"blobs", "sha">>

\* A redirect answered by another redirect is not followed: it reaches the size step.
C5_NotFollowed(s) ==
    (s.pc = "done" /\ GotStatus(s, "redirect") \in {302, 307}) =>
        /\ Len(SentOf(s, "redirect")) = 1
        /\ Last(s.sent).kind = "redirect"
        /\ Len(s.client) = 1
        /\ \/ s.client[1].op = "Stream" /\ s.client[1].status = GotStatus(s, "redirect")
           \/ s.client[1].op = "Redirect" /\ s.client[1].status = 301

FinalReached(s) ==
    /\ s.pc = "done"
    /\ s.redir.from # "none"
    /\ s.redir.status \notin {302, 307} \/ GotOf(s, "redirect") # <<>>

FinalStatus(s) ==
    IF GotOf(s, "redirect") # <<>> THEN GotStatus(s, "redirect") ELSE s.redir.status

FinalFrom(s) == IF GotOf(s, "redirect") # <<>> THEN "redirect" ELSE s.redir.from

\* The number a Content-Length value denotes, -1 when absent or not a number.
CLValue(cl) ==
    CASE cl = CLAtMB -> 1048576
      [] cl = CLOver -> 1048577
      [] OTHER       -> -1

\* C6: when the final non-404 response carries a parsable Content-Length strictly
\* greater than SizeLimit*1024*1024, the client gets a 301 to the URL of the request
\* that produced that response, the upstream body is closed and nothing of the
\* upstream response is streamed; an absent, unparsable or not greater
\* Content-Length never causes the 301.
C6_SizeLimit ==
    \A r \in Reqs :
        LET s    == req[r]
            over == CLValue(s.resp.cl) > s.sizeLimit * 1048576
        IN  (FinalReached(s) /\ FinalStatus(s) # 404) =>
                /\ s.resp.from = FinalFrom(s)
                /\ over =>
                      /\ Last(s.client) =
                            ClientOp("Redirect", 301, URLString(Last(SentOf(s, FinalFrom(s))).url),
                                     "none", 0, FALSE)
                      /\ ClientOps(s, "Stream") = <<>>
                      /\ s.bodies[FinalFrom(s)].closes = 1
                      /\ s.bodies[FinalFrom(s)].handoffs = 0
                /\ ~over =>
                      /\ ClientOps(s, "Redirect") = <<>>
                      /\ Last(s.client).op = "Stream"
                      /\ Last(s.client).status = FinalStatus(s)

C6_Witness ==
    \E r \in Reqs :
        /\ FinalReached(req[r])
        /\ req[r].resp.from = "redirect"
        /\ req[r].resp.cl = CLOver
        /\ req[r].sizeLimit = 1
        /\ Last(req[r].client).op = "Redirect"
        /\ Last(req[r].client).url = "https://cdn.example/blobs/sha?sig=1"

(***************************************************************************)
(* C7                                                                      *)
(***************************************************************************)
\* C7: ChallengeReq is invoked only when the initial response is a 401 or a 404; with
\* a cached token and a first response of 200 (or any other status) no challenge
\* request and no token request is issued and the cache is not written.
C7_ChallengeOnlyOn401Or404 ==
    \A r \in Reqs :
        LET s == req[r]
        IN  (s.nChallenge > 0 \/ SentOf(s, "probe") # <<>> \/ SentOf(s, "token") # <<>>
                \/ SentOf(s, "retry") # <<>> \/ PutsOf(s) # <<>>)
                => GotStatus(s, "initial") \in {401, 404}

C7_Witness ==
    \E r \in Reqs :
        /\ req[r].pc = "done"
        /\ CacheHit(req[r])
        /\ GotStatus(req[r], "initial") = 200
        /\ req[r].nChallenge = 0
        /\ Len(req[r].sent) = 1
        /\ Len(req[r].cacheOps) = 1

(***************************************************************************)
(* C8                                                                      *)
(***************************************************************************)
\* C8: on the path /v2/ a 401 or 404 never leads to a challenge, a cache write or a
\* retry, with or without an image; the original response goes on unchanged into
\* the redirect, not-found, size and stream steps.
C8_DiscoveryNeverRetried ==
    \A r \in Reqs :
        LET s == req[r]
        IN  PathStr(s.c.uriPath) = "/v2/" =>
                /\ s.nChallenge = 0
                /\ PutsOf(s) = <<>>
                /\ SentOf(s, "probe") = <<>> /\ SentOf(s, "token") = <<>>
                /\ SentOf(s, "retry") = <<>>
                /\ GotStatus(s, "initial") \in {401, 404} =>
                      /\ s.steps # <<>> /\ s.steps[1] = "redirect"
                      /\ s.redir.from = "initial"
                      /\ s.redir.status = GotStatus(s, "initial")
                      /\ s.resp.from = "initial"
                      /\ s.resp.status = GotStatus(s, "initial")
                      /\ Len(s.steps) >= 2 /\ s.steps[2] \in {"notfound", "size"}
                      /\ Len(s.client) = 1
                      /\ s.client[1].op = "Stream" =>
                            /\ s.client[1].from = "initial"
                            /\ s.client[1].status = GotStatus(s, "initial")

C8_Witness ==
    \E r \in Reqs :
        /\ req[r].pc = "done"
        /\ PathStr(req[r].c.uriPath) = "/v2/"
        /\ req[r].image # NoImage
        /\ GotStatus(req[r], "initial") = 401
        /\ Last(req[r].client).op = "Stream"

(***************************************************************************)
(* C9                                                                      *)
(***************************************************************************)
\* C9: with cfg.Docker.Enabled false GhcrToTarget answers 403 and returns without any
\* upstream request and without reading or writing the token cache.
C9_DisabledIs403 ==
    \A r \in Reqs :
        LET s == req[r]
        IN  ~s.dockerEnabled =>
                /\ s.pc = "done"
                /\ s.client = << ClientOp("ErrorPage", 403, "", "none", 0, FALSE) >>
                /\ s.sent = <<>>
                /\ s.cacheOps = <<>>

C9_Witness ==
    \E r \in Reqs :
        /\ ~req[r].dockerEnabled
        /\ req[r].image # NoImage
        /\ cache[req[r].image] # Absent
        /\ req[r].pc = "done"

(***************************************************************************)
(* C10                                                                     *)
(***************************************************************************)
\* C10: when the working response after the auth-retry and redirect steps is a 404,
\* the client gets the engine's 404 page and never the upstream response through
\* the streaming sink; the body is read and closed by the engine, and the size and
\* stream steps are not reached.
C10_NotFoundPage ==
    \A r \in Reqs :
        LET s == req[r]
        IN  (FinalReached(s) /\ FinalStatus(s) = 404) =>
                /\ Last(s.client) = ClientOp("ErrorPage", 404, "", FinalFrom(s), 0, FALSE)
                /\ ClientOps(s, "Stream") = <<>>
                /\ ClientOps(s, "Redirect") = <<>>
                /\ s.bodies[FinalFrom(s)].read
                /\ s.bodies[FinalFrom(s)].closes = 1
                /\ s.bodies[FinalFrom(s)].handoffs = 0
                /\ \A i \in 1..Len(s.steps) : s.steps[i] \notin {"size", "stream"}

C10_Witness ==
    \E r \in Reqs :
        /\ FinalReached(req[r])
        /\ FinalStatus(req[r]) = 404
        /\ req[r].resp.from = "redirect"
        /\ req[r].resp.cl = CLOver
        /\ Last(req[r].client).op = "ErrorPage"

(***************************************************************************)
(* C11                                                                     *)
(***************************************************************************)
\* The request of that kind was sent and its send failed: the handler is no
\* longer waiting for it and no response to it was received.
SendFailed(s, kind) ==
    /\ SentOf(s, kind) # <<>>
    /\ GotOf(s, kind) = <<>>
    /\ s.pc = "done"

\* The initial request could not be built (line 152).
InitialBuildFailed(s) ==
    s.pc = "done" /\ s.u # NoURL /\ ~s.c.bodyErr /\ ~ValidHost(s.u.host)

\* C11: a build or send error on the initial, the retry or the redirect request is
\* fatal: the client gets the generic upstream-error page and nothing else, the
\* failing request is the last upstream request and was sent once, and nothing is
\* streamed.
C11_SendErrorIsFatal ==
    \A r \in Reqs :
        LET s == req[r]
        IN  /\ \A k \in {"initial", "retry", "redirect"} :
                  /\ Len(SentOf(s, k)) <= 1
                  /\ SendFailed(s, k) =>
                        /\ s.client = << ClientOp("HandleError", 0, "", "none", 0, FALSE) >>
                        /\ Last(s.sent).kind = k
                        /\ ClientOps(s, "Stream") = <<>>
                        /\ \A b \in BodyKinds : s.bodies[b].handoffs = 0
            /\ InitialBuildFailed(s) =>
                  /\ s.client = << ClientOp("HandleError", 0, "", "none", 0, FALSE) >>
                  /\ s.sent = <<>>

C11_Witness ==
    \E r \in Reqs :
        /\ SendFailed(req[r], "redirect")
        /\ GotStatus(req[r], "initial") = 401
        /\ GotStatus(req[r], "retry") = 302
        /\ Len(req[r].sent) = 5

(***************************************************************************)
(* C12                                                                     *)
(***************************************************************************)
\* The routed call under examination has returned with the gate open.
Resolved == call.fn = "GhcrWithImageRouting" /\ call.pc = "returned" /\ call.cfg.dockerEnabled

\* The table of the claim: the host an explicit target string or, for the empty
\* target, a configured default stands for; "" where the request is rejected,
\* "?" where the claim says nothing (a non-empty target without a '.').
ExpectedHost(reqTarget, dockerTarget) ==
    CASE reqTarget = "docker.io" -> "registry-1.docker.io"
      [] reqTarget = "ghcr.io"   -> "ghcr.io"
      [] reqTarget \in {"gcr.io", "us.gcr.io"} -> reqTarget
      [] reqTarget \in {"xgcr.io", "registry.example.com"} -> reqTarget
      [] reqTarget = "" ->
            (CASE dockerTarget = "ghcr"      -> "ghcr.io"
               [] dockerTarget = "dockerhub" -> "registry-1.docker.io"
               [] OTHER                      -> dockerTarget)
      [] OTHER -> "?"

\* The request went upstream to that host, which is also its Host header.
SentTo(s, host) ==
    /\ Len(s.sent) = 1
    /\ s.sent[1].url.scheme = "https"
    /\ s.sent[1].url.host = host
    /\ s.sent[1].hdr.Host = host
    /\ s.target = host

Rejected403(s) ==
    /\ s.pc = "done"
    /\ s.client = << ClientOp("ErrorPage", 403, "", "none", 0, FALSE) >>
    /\ s.sent = <<>>

\* C12: docker.io resolves to registry-1.docker.io, ghcr.io to ghcr.io, gcr.io and
\* every *.gcr.io to itself, any other target containing a '.' to itself; with the
\* empty target the default ghcr resolves to ghcr.io, dockerhub to
\* registry-1.docker.io, any other non-empty default to itself, and the empty
\* default is rejected with 403 and no upstream request.
C12_TargetResolution ==
    Resolved =>
        LET host == ExpectedHost(HostStr(call.labels), call.cfg.dockerTarget)
        IN  /\ host = "" => Rejected403(req[1])
            /\ host \notin {"", "?"} => SentTo(req[1], host)

C12_Witness ==
    /\ Resolved
    /\ call.labels = <<"us", "gcr", "io">>
    /\ call.cfg.dockerTarget = "dockerhub"
    /\ SentTo(req[1], "us.gcr.io")

(***************************************************************************)
(* C13                                                                     *)
(***************************************************************************)
\* What the same call gives under the configured default d.
UnderDefault(d) ==
    GhcrWithImageRouting(RouteClient(call), [call.cfg EXCEPT !.dockerTarget = d], call.labels,
                         call.user, call.repo, call.filepath, cache)

\* The destination URL built from the explicit target: /v2/<user>/<repo><filepath>.
ExplicitURL(host) ==
    [scheme |-> "https", host |-> host,
     path |-> <<"v2", call.user, call.repo>> \o call.filepath, query |-> call.uriQuery]

\* The destination URL built from the default: the request URI on the default host.
DefaultURL(host) ==
    [scheme |-> "https", host |-> host,
     path |-> RoutedPath(call.labels, call.user, call.repo, call.filepath),
     query |-> call.uriQuery]

\* C13 as stated: a non-empty route target alone determines host and URL.
C13_Original ==
    (Resolved /\ call.labels # <<>>) =>
        /\ \A d \in DockerTargets : UnderDefault(d) = req[1]
        /\ Len(req[1].sent) = 1

\* C13 (amended): a route target that names a registry (docker.io, ghcr.io, gcr.io,
\* *.gcr.io or any string containing a '.') alone determines the upstream host and
\* the destination URL, whatever the configured default; the default is used when
\* the route target is empty or is a non-empty string without a '.', the
\* destination then being the request URI on the default host, and an empty
\* default is rejected.
C13_Precedence ==
    Resolved =>
        LET s == req[1]
        IN  IF Len(call.labels) >= 2
            THEN /\ \A d \in DockerTargets : UnderDefault(d) = s
                 /\ Len(s.sent) = 1
                 /\ s.sent[1].url = ExplicitURL(ExpectedHost(HostStr(call.labels), ""))
            ELSE LET host == ExpectedHost("", call.cfg.dockerTarget)
                 IN  /\ host = "" => s.pc = "done" /\ s.sent = <<>>
                     /\ host # "" => SentTo(s, host) /\ s.sent[1].url = DefaultURL(host)

C13_Witness ==
    /\ Resolved
    /\ call.labels = <<"local">>
    /\ call.cfg.dockerTarget = "ghcr"
    /\ call.uriQuery = "n=1"
    /\ URLString(req[1].sent[1].url) = "https://ghcr.io/v2/local/a/x/manifests/latest?n=1"

(***************************************************************************)
(* Reading Matcher's input and result                                      *)
(***************************************************************************)
Returned == call.fn = "Matcher" /\ call.pc = "returned"

\* The input begins with that prefix.
Under(prefix) == Returned /\ HasPrefix(call.rawPath, prefix)

\* All the "/"-separated segments of a string.
RECURSIVE SplitAll(_)
SplitAll(str) ==
    LET i == IndexByte(str, "/")
    IN  IF i = -1 THEN <<str>> ELSE <<Before(str, i)>> \o SplitAll(From(str, i + 1))

\* The segments of the input after that prefix.
SegsAfter(prefix) == SplitAll(From(call.rawPath, Len(prefix)))

Succeeded == call.out.err = NoErr

\* A failure with that status and every field empty.
Failed(status) ==
    /\ call.out.err.status = status
    /\ call.out.user = <<>> /\ call.out.repo = <<>> /\ call.out.matcher = ""

(***************************************************************************)
(* C14                                                                     *)
(***************************************************************************)
\* C14: for https://github.com/<owner>/<repo>/<rest> with owner and repo non-empty,
\* Matcher returns (owner, repo, "releases") when the first segment of rest is
\* archive or when rest begins with releases/download/, and a 400 error when the
\* first segment is releases and rest does not begin with releases/download/.
C14_Releases ==
    Under(githubPrefix) =>
        LET segs == SegsAfter(githubPrefix)
        IN  (Len(segs) >= 3 /\ segs[1] # <<>> /\ segs[2] # <<>>) =>
                LET download == Len(segs) >= 5 /\ segs[3] = wReleases /\ segs[4] = wDownload
                IN  /\ (segs[3] = wArchive \/ download) =>
                          call.out = MatchOk(segs[1], segs[2], "releases")
                    /\ (segs[3] = wReleases /\ ~download) => Failed(400)

C14_Witness ==
    /\ Returned
    /\ call.rawPath = githubPrefix \o <<"a", "/", "b", "/", "r", "e", "l", "e", "a", "s", "e", "s", "/", "d", "o", "w", "n", "l", "o", "a", "d", "/", "f">>
    /\ call.out = MatchOk(wA, wB, "releases")

(***************************************************************************)
(* C15                                                                     *)
(***************************************************************************)
\* C15: under https://github.com/ and https://raw.githubusercontent.com/ Matcher
\* succeeds only if the owner, the repo and a third segment are all present and
\* non-empty, the owner and repo returned are then the first two segments, and if
\* any of the three is missing the result is a 400 error.
C15_Original ==
    \A prefix \in {githubPrefix, rawPrefix} :
        Under(prefix) =>
            LET segs  == SegsAfter(prefix)
                three == Len(segs) >= 3 /\ segs[1] # <<>> /\ segs[2] # <<>> /\ segs[3] # <<>>
            IN  /\ Succeeded =>
                      three /\ call.out.user = segs[1] /\ call.out.repo = segs[2]
                /\ ~three => Failed(400)

(***************************************************************************)
(* C16                                                                     *)
(***************************************************************************)
\* C16: under either gist prefix Matcher succeeds with (owner, "", "gist") exactly
\* when the text between the prefix and the first following "/" (or the end of
\* the input) is non-empty; the owner is that segment, the gist id is never
\* returned, and an empty owner segment yields a 400 error.
C16_Original ==
    \A prefix \in {gistPrefix, gistContentPrefix} :
        Under(prefix) =>
            LET owner == SegsAfter(prefix)[1]
            IN  /\ owner # <<>> => call.out = MatchOk(owner, <<>>, "gist")
                /\ owner = <<>> => Failed(400)

(***************************************************************************)
(* C17                                                                     *)
(***************************************************************************)
\* C17: under https://api.github.com/ Matcher returns the 403 error "API proxy
\* requires header authentication" unless ForceAllowApi is set or Auth.Method is
\* "header" with Auth.Enabled, whatever the rest of the path; when allowed it
\* returns the kind "api", with owner and repo for repos/<owner>/<repo>/... and
\* the owner alone for users/<owner>/... .
C17_ApiGate ==
    Under(apiPrefix) =>
        LET segs    == SegsAfter(apiPrefix)
            allowed == call.cfg.ForceAllowApi
                          \/ (call.cfg.Method = "header" /\ call.cfg.Enabled)
        IN  /\ ~allowed =>
                  call.out = MatchErr(403, "API proxy requires header authentication")
            /\ allowed =>
                  /\ Succeeded /\ call.out.matcher = "api"
                  /\ (segs[1] = wRepos /\ Len(segs) >= 3) =>
                        call.out.user = segs[2] /\ call.out.repo = segs[3]
                  /\ (segs[1] = wUsers /\ Len(segs) >= 2) =>
                        call.out.user = segs[2] /\ call.out.repo = <<>>

C17_Witness ==
    /\ Returned
    /\ call.rawPath = apiPrefix \o <<"r", "e", "p", "o", "s", "/", "b", "/", "r", "e", "l", "e", "a", "s", "e", "s", "/", "d", "o", "w", "n", "l", "o", "a", "d">>
    /\ call.cfg = [ForceAllowApi |-> FALSE, Method |-> "header", Enabled |-> TRUE]
    /\ call.out = MatchOk(wB, wReleases, "api")

(***************************************************************************)
(* C18                                                                     *)
(***************************************************************************)
\* C18: Matcher never returns a partial success: either the error is nil and the
\* kind is one of releases, blob, raw, clone, gist, api, or the error has status
\* 400, 403 or 404 and owner, repo and kind are all empty; an input shorter than
\* 18 characters and an input with none of the five prefixes yields 404.
C18_NoPartialSuccess ==
    Returned =>
        /\ \/ Succeeded
              /\ call.out.matcher \in {"releases", "blob", "raw", "clone", "gist", "api"}
           \/ \E status \in {400, 403, 404} : Failed(status)
        /\ Len(call.rawPath) < 18 => Failed(404)
        /\ (\A prefix \in Prefixes : ~HasPrefix(call.rawPath, prefix)) => Failed(404)

C18_Witness ==
    /\ Returned
    /\ call.rawPath = <<"h", "t", "t", "p", "s", ":", "/", "/", "g", "i", "t", "h", "u", "b", ".", "c", "o", "m">>
    /\ call.out = MatchErr(404, "no matcher found for the given path")

(***************************************************************************)
(* C19                                                                     *)
(***************************************************************************)
\* The step in which request r sends its initial request.
SendsInitial(r) == req[r].sent = <<>> /\ req'[r].sent # <<>>

\* What the initial request of r carries, against the cache as it is when the
\* request is built.
C19_AtSend ==
    \A r \in Reqs :
        SendsInitial(r) =>
            LET s     == req'[r]
                first == s.sent[1]
                hit   == s.image # NoImage /\ cache[s.image] # Absent
            IN  /\ first.kind = "initial"
                /\ hit => first.hdr.Authorization = "Bearer " \o cache[s.image]
                /\ ~hit => first.hdr.Authorization = s.c.authorization
                /\ first.hdr.Host = s.target
                /\ first.url.host = s.target
                /\ first.hdr.copied

\* C19: the initial upstream request carries Authorization: Bearer <cached token>
\* if and only if an image is present and the cache has an entry for it; on a hit
\* the cached token replaces the Authorization copied from the client, on a miss
\* the client's own header (or none) is all there is, and Host is the resolved
\* upstream target in both cases.
C19_InitialAuthorization == [][C19_AtSend]_vars

C19_Witness ==
    \E r \in Reqs :
        /\ req[r].pc = "waitInitial"
        /\ req[r].c.authorization = "Basic Zm9v"
        /\ CacheHit(req[r])
        /\ req[r].sent[1].hdr.Authorization = "Bearer tokB"
        /\ req[r].sent[1].hdr.Host = "registry-1.docker.io"

(***************************************************************************)
(* C20                                                                     *)
(***************************************************************************)
\* C20: the redirect follow-up request is a GET without a body whatever the
\* client's method, and of the client's request it carries the User-Agent only:
\* no other client header, no Authorization (cached or fresh token), no body.
C20_RedirectRequestIsBare ==
    \A r \in Reqs :
        LET s == req[r]
        IN  \A i \in 1..Len(s.sent) :
                s.sent[i].kind = "redirect" =>
                    /\ s.sent[i].method = "GET"
                    /\ s.sent[i].body = ""
                    /\ s.sent[i].hdr.UserAgent = s.c.userAgent
                    /\ s.sent[i].hdr.Authorization = ""
                    /\ s.sent[i].hdr.Accept = ""
                    /\ ~s.sent[i].hdr.copied

C20_Witness ==
    \E r \in Reqs :
        /\ SentOf(req[r], "redirect") # <<>>
        /\ req[r].c.method = "POST"
        /\ req[r].c.body # ""
        /\ req[r].token # NoToken
        /\ SentOf(req[r], "retry")[1].hdr.Authorization = "Bearer " \o req[r].token
        /\ SentOf(req[r], "redirect")[1].hdr.Authorization = ""

(***************************************************************************)
(* C21                                                                     *)
(***************************************************************************)
\* The case of C21: not /v2/, no image, and the initial response was a 401 or a 404.
C21_Case(s) ==
    /\ PathStr(s.c.uriPath) # "/v2/"
    /\ s.image = NoImage
    /\ GotStatus(s, "initial") \in {401, 404}

\* C21: when the initial response is a 401 or a 404, the path is not /v2/ and there
\* is no image, GhcrRequest closes the response body, answers with the error page
\* carrying that status and returns: no challenge, no cache read or write, no
\* retry, no redirect handling, nothing streamed.
C21_NoImageIsFatal ==
    \A r \in Reqs :
        LET s == req[r]
        IN  C21_Case(s) =>
                /\ s.pc = "done"
                /\ s.client = << ClientOp("ErrorPage", GotStatus(s, "initial"), "", "initial",
                                          0, FALSE) >>
                /\ s.bodies["initial"].closes = 1
                /\ s.bodies["initial"].handoffs = 0
                /\ ~s.bodies["initial"].read
                /\ s.nChallenge = 0
                /\ s.cacheOps = <<>>
                /\ Len(s.sent) = 1 /\ s.sent[1].kind = "initial"
                /\ Len(s.got) = 1
                /\ s.steps = <<>>
                /\ s.token = NoToken

C21_Witness ==
    \E r \in Reqs :
        /\ C21_Case(req[r])
        /\ GotStatus(req[r], "initial") = 404
        /\ req[r].client = << ClientOp("ErrorPage", 404, "", "initial", 0, FALSE) >>
        /\ req[r].bodies["initial"].closes = 1

(***************************************************************************)
(* C22                                                                     *)
(***************************************************************************)
\* The query of the token request ChallengeReq builds for an image (lines 383-392).
ScopeQueries(image) ==
    { "service=" \o w.service \o "&scope=repository:" \o image \o ":pull" :
        w \in WwwAuthenticate }

\* What a cycle has written to the cache so far, and on what grounds.
C22_Inv ==
    \A r \in Reqs :
        LET s == req[r]
        IN  /\ Len(PutsOf(s)) <= 1
            /\ \A i \in 1..Len(s.cacheOps) : s.cacheOps[i].key = s.image
            /\ s.image = NoImage => s.cacheOps = <<>>
            /\ \A i \in 1..Len(s.sent) :
                  s.sent[i].kind = "token" => s.sent[i].url.query \in ScopeQueries(s.image)
            /\ PutsOf(s) # <<>> =>
                  /\ s.image \in ImageKeys
                  /\ s.nChallenge = 1
                  /\ GotStatus(s, "initial") \in {401, 404}
                  /\ GotOf(s, "token") # <<>>
                  /\ s.token # NoToken
                  /\ PutsOf(s)[1].val = s.token
                  /\ s.cacheOps[1].op = "get"
                  /\ Last(s.cacheOps).op = "put"
            /\ s.token # NoToken => Len(PutsOf(s)) = 1

\* Request r writes the cache in this step.
Puts(r) == Len(PutsOf(req'[r])) = Len(PutsOf(req[r])) + 1

\* The image of a running request never changes, and a step in which no request
\* writes stores no token anywhere.
C22_Quiet ==
    /\ \A r \in Reqs :
          (req[r].pc \notin {"idle", "done"} /\ req'[r].pc # "idle") =>
              req'[r].image = req[r].image
    /\ (\A r \in Reqs : ~Puts(r)) =>
          \A k \in ImageKeys : cache'[k] \in {cache[k], Absent}

\* The write as stated: the writer's entry is replaced, every other entry is as it was.
C22_FrameOriginal ==
    \A r \in Reqs :
        Puts(r) => cache' = [cache EXCEPT ![req'[r].image] = req'[r].token]

\* C22 as stated: at most one write, after a successful challenge, under the image
\* string; the write leaves the entries of every other key unchanged.
C22_Original == []C22_Inv /\ [][C22_Quiet /\ C22_FrameOriginal]_vars

\* The write: the writer's entry is replaced; another entry keeps its token or is
\* evicted, and it is evicted only by a write that adds an entry.
C22_Frame ==
    \A r \in Reqs :
        Puts(r) =>
            /\ cache'[req'[r].image] = req'[r].token
            /\ \A k \in ImageKeys \ {req'[r].image} :
                  /\ cache'[k] \in {cache[k], Absent}
                  /\ cache[req'[r].image] # Absent => cache'[k] = cache[k]

\* C22 (amended): one cycle writes the token cache at most once, only after its
\* challenge returned a non-empty token, and only under its own image string, which
\* is also the key of its initial lookup and the subject of the scope it requested;
\* the write replaces whatever token the key held and stores no token under any
\* other key, whose entry stays as it was or is evicted to make room.
C22_CacheWrite == []C22_Inv /\ [][C22_Quiet /\ C22_Frame]_vars

\* A stale cached token is replaced while another image's entry stays.
C22_Witness ==
    \E r \in Reqs :
        LET s == req[r]
        IN  /\ CacheHit(s)
            /\ s.image = "a/x"
            /\ s.cacheOps[1].val = "tokA"
            /\ PutsOf(s) = << [op |-> "put", key |-> "a/x", val |-> "tokB"] >>
            /\ cache["a/x"] = "tokB"
            /\ cache["a/y"] = "tokA"

(***************************************************************************)
(* C23                                                                     *)
(***************************************************************************)
\* Request r's challenge returned this token for this image.
Challenged(r, image, token) ==
    /\ req[r].image = image
    /\ req[r].nChallenge = 1
    /\ GotOf(req[r], "token") # <<>>
    /\ token # NoToken
    /\ req[r].token = token

\* C23: however the concurrently handled requests interleave, the cache entry of
\* an image is absent or a token that a successful challenge for that same image
\* returned; the retry of a request carries the token its own challenge returned,
\* whatever the cache holds by then; and every request performs at most one
\* challenge, also when others challenge for the same image at the same time.
C23_SharedCache ==
    /\ \A k \in ImageKeys :
          cache[k] = Absent \/ \E r \in Reqs : Challenged(r, k, cache[k])
    /\ \A r \in Reqs :
          LET s == req[r]
          IN  /\ \A i \in 1..Len(s.sent) :
                    s.sent[i].kind = "retry" =>
                        /\ Challenged(r, s.image, s.token)
                        /\ s.sent[i].hdr.Authorization = "Bearer " \o s.token
              /\ s.nChallenge <= 1
              /\ Len(SentOf(s, "probe")) <= 1
              /\ Len(SentOf(s, "token")) <= 1
              /\ Len(SentOf(s, "retry")) <= 1

\* Two requests for one image are in flight together, each has challenged once and
\* got a token of its own; the cache holds the later one while the other request's
\* retry carries the earlier one.
C23_Witness ==
    \E r1, r2 \in Reqs :
        /\ r1 # r2
        /\ req[r1].image = "a/x" /\ req[r2].image = "a/x"
        /\ req[r1].pc = "waitRetry" /\ req[r2].pc = "waitRetry"
        /\ req[r1].nChallenge = 1 /\ req[r2].nChallenge = 1
        /\ req[r1].token = "tokA" /\ req[r2].token = "tokB"
        /\ cache["a/x"] = "tokB"
        /\ SentOf(req[r1], "retry")[1].hdr.Authorization = "Bearer tokA"
        /\ SentOf(req[r2], "retry")[1].hdr.Authorization = "Bearer tokB"

====
